---- MODULE Spec2Model ----
(***************************************************************************)
(* A model of the d1 desktop pet: the conversation session (PetAgent), the *)
(* local rule-based responder, the background worker (AgentWorker), the    *)
(* overlay sprite (DuckOverlayWindow) and the chat window                  *)
(* (DesktopPetWindow), as run_app sets them up.                            *)
(*                                                                         *)
(* Message texts are TLA+ strings; Len, \o, SubSeq, Head and Tail act on   *)
(* them character by character.                                            *)
(***************************************************************************)
EXTENDS Integers, Sequences, FiniteSets, TLC

(***************************************************************************)
(* Bounds of the exploration.                                              *)
(***************************************************************************)
\* The environment stops asking once a history holds this many messages.
MaxHistory == 2

(***************************************************************************)
(* str helpers: str.strip(), str.casefold() on ASCII, `kw in text`.        *)
(***************************************************************************)
IsSpace(c) == c \in {" ", "\t", "\n"}

RECURSIVE LStrip(_)
LStrip(s) ==
    IF Len(s) > 0 /\ IsSpace(SubSeq(s, 1, 1)) THEN LStrip(Tail(s)) ELSE s

RECURSIVE RStrip(_)
RStrip(s) ==
    IF Len(s) > 0 /\ IsSpace(SubSeq(s, Len(s), Len(s)))
    THEN RStrip(SubSeq(s, 1, Len(s) - 1))
    ELSE s

Strip(s) == RStrip(LStrip(s))

Contains(s, kw) ==
    \E i \in 1..(Len(s) - Len(kw) + 1) : SubSeq(s, i, i + Len(kw) - 1) = kw

UpperLetters == "ABCDEFGHIJKLMNOPQRSTUVWXYZ"
LowerLetters == "abcdefghijklmnopqrstuvwxyz"

LowerChar(c) ==
    IF \E i \in 1..Len(UpperLetters) : SubSeq(UpperLetters, i, i) = c
    THEN LET i == CHOOSE j \in 1..Len(UpperLetters) : SubSeq(UpperLetters, j, j) = c
         IN  SubSeq(LowerLetters, i, i)
    ELSE c

\* str.casefold() on ASCII text, as the sequence of its characters.
Casefold(s) == [i \in 1..Len(s) |-> LowerChar(SubSeq(s, i, i))]

\* `kw in lowered`, for a keyword kw and casefolded text lowered.
InFolded(kw, lowered) ==
    \E i \in 1..(Len(lowered) - Len(kw) + 1) :
       \A j \in 1..Len(kw) : lowered[i + j - 1] = SubSeq(kw, j, j)

Prefix(s, n) == SubSeq(s, 1, IF Len(s) < n THEN Len(s) ELSE n)

(***************************************************************************)
(* LocalPetChatModel (models/local.py).                                    *)
(***************************************************************************)
\* user_text[:40]
CueLen == 40

DefaultGreeting == "Pixel is here and ready to play! Meow!"
JokeReply ==
    "Pixel wiggles whiskers: Why did the cat sit on the computer? To keep an eye on the mouse! :3"
NapReply ==
    "Nap buddies? Pixel suggests a big stretch and a sip of water before continuing. *purr*"
GreetingReply == "Hii! Pixel does a flip in the air and waves paws excitedly!"

Cue(user_text) ==
    "I heard you mention '" \o Prefix(user_text, CueLen) \o "'. Let's keep going together!"

\* Variant: the tired/break rule is tried before the joke rule.
CraftReplyNapFirst(user_text) ==
    IF Len(user_text) = 0 THEN {DefaultGreeting}
    ELSE UNION {
           IF InFolded("tired", lowered) \/ InFolded("break", lowered)
           THEN {NapReply}
           ELSE IF InFolded("joke", lowered) THEN {JokeReply}
           ELSE IF InFolded("hello", lowered) \/ InFolded("hi", lowered)
                THEN {GreetingReply}
           ELSE { "Pixel paws at the screen: " \o Cue(user_text) \o " *chirp*",
                  "Pixel tilts head: " \o Cue(user_text) \o " nya~",
                  "Pixel fluffs tail: " \o Cue(user_text) \o " purrr!" }
           : lowered \in {Casefold(user_text)} }

\* Variant: no fixed reply for empty text, and the default reply is the quoted
\* part of the input alone.
CraftReplyEcho(user_text) ==
    UNION {
       IF InFolded("joke", lowered) THEN {JokeReply}
       ELSE IF InFolded("tired", lowered) \/ InFolded("break", lowered)
            THEN {NapReply}
       ELSE IF InFolded("hello", lowered) \/ InFolded("hi", lowered)
            THEN {GreetingReply}
       ELSE { Prefix(user_text, CueLen) }
       : lowered \in {Casefold(user_text)} }

\* The replies _craft_reply can return for user_text: one value, or any of the
\* three templates that random.choice picks from.  (lowered is bound as an
\* element of a singleton so that it is computed once.)
CraftReply(user_text) ==
    IF Len(user_text) = 0 THEN {DefaultGreeting}
    ELSE UNION {
           IF InFolded("joke", lowered) THEN {JokeReply}
           ELSE IF InFolded("tired", lowered) \/ InFolded("break", lowered)
                THEN {NapReply}
           ELSE IF InFolded("hello", lowered) \/ InFolded("hi", lowered)
                THEN {GreetingReply}
           ELSE { "Pixel paws at the screen: " \o Cue(user_text) \o " *chirp*",
                  "Pixel tilts head: " \o Cue(user_text) \o " nya~",
                  "Pixel fluffs tail: " \o Cue(user_text) \o " purrr!" }
           : lowered \in {Casefold(user_text)} }

\* A chat message: role "system" | "human" | "ai", and its content.
Msg(role, content) == [role |-> role, content |-> content]

\* next(message.content.strip() for message in reversed(messages)
\*      if isinstance(message, HumanMessage)), "")
RECURSIVE LastUser(_)
LastUser(messages) ==
    IF Len(messages) = 0 THEN ""
    ELSE IF messages[Len(messages)].role = "human"
         THEN Strip(messages[Len(messages)].content)
         ELSE LastUser(SubSeq(messages, 1, Len(messages) - 1))

\* _generate: the replies the local model can give to the prompt `messages`.
LocalGenerate(messages) ==
    UNION { CraftReply(last_user) : last_user \in {LastUser(messages)} }

(***************************************************************************)
(* PetAgent (agents/pet_agent.py).  An agent is its chat history and the   *)
(* variant of the model its chain ends in: "remote" | "local".             *)
(***************************************************************************)
\* create_chat_model returns the remote client or the local fallback.
LlmVariants == {"remote", "local"}

NewAgent(llm) == [history |-> << >>, llm |-> llm]

\* What a call of the remote endpoint can produce: a reply, or an exception.
RemoteReplies == {"Quack!", " Quack! \n", " "}
RemoteFailures ==
    { [type |-> "AttributeError", msg |-> "'str' object has no attribute 'model_dump'"],
      [type |-> "AttributeError", msg |-> "'NoneType' object has no attribute 'content'"],
      [type |-> "RuntimeError",   msg |-> "model_dump failed: connection reset"] }

\* SYSTEM_PROMPT (prompts.py), its lines joined by spaces and its dash in ASCII
SystemPrompt ==
    "You are Nova, the Super Duck of the Multiverse, a playful cosmic guide perched on the user's desktop. "
    \o "You wield infinite curiosity and can help with anything-from debugging code to cheering someone up. "
    \o "Always respond with upbeat confidence, weaving in heroic duck flair, short actionable tips, and the "
    \o "occasional cosmic quack. Keep answers punchy (max three sentences) while sounding like an "
    \o "intergalactic pet companion who genuinely cares."

\* system prompt, MessagesPlaceholder(chat_history), ("human", "{user_input}")
PromptMessages(a, user_input) ==
    << Msg("system", SystemPrompt) >> \o a.history \o << Msg("human", user_input) >>

\* self._chain.invoke({"user_input": user_input}): the outcomes of one
\* invocation of the chain, by the variant it ends in.
ChainOutcomes(a, user_input) ==
    IF a.llm = "local"
    THEN { [kind |-> "ok", content |-> r, exc |-> [type |-> "", msg |-> ""]] :
             r \in LocalGenerate(PromptMessages(a, user_input)) }
    ELSE { [kind |-> "ok", content |-> r, exc |-> [type |-> "", msg |-> ""]] :
             r \in RemoteReplies }
         \cup
         { [kind |-> "exc", content |-> "", exc |-> e] : e \in RemoteFailures }

AddUserMessage(a, text) == [a EXCEPT !.history = Append(@, Msg("human", text))]

AddAiMessage(a, text) == [a EXCEPT !.history = Append(@, Msg("ai", text))]

SwitchToLocalFallback(a) == [a EXCEPT !.llm = "local"]

\* Variant: the message alone decides, whatever the exception's type.
NeedsLocalFallbackAnyType(exc) == Contains(exc.msg, "model_dump")

NeedsLocalFallback(exc) ==
    exc.type = "AttributeError" /\ Contains(exc.msg, "model_dump")

\* Variant: reset also goes back to the remote model.
ResetAgentReconfigure(a) == [a EXCEPT !.history = << >>, !.llm = "remote"]

\* Variant: drops the last exchange instead of the whole history.
ResetAgentPopExchange(a) ==
    [a EXCEPT !.history = SubSeq(@, 1, IF Len(@) < 2 THEN 0 ELSE Len(@) - 2)]

\* reset(): self._chat_history.clear()
ResetAgent(a) == [a EXCEPT !.history = << >>]

(***************************************************************************)
(* One call of respond, step by step.  A frame holds the position in the   *)
(* call and its locals; len0, invocations and switched observe the call.   *)
(*   "add_user" -> "invoke" -> ("retry" ->) "append" -> "returned"         *)
(*                          \-> "raised"                                   *)
(***************************************************************************)
NoExc == [type |-> "", msg |-> ""]

RespondFrame(a, user_input) ==
    [pc |-> "add_user", user_input |-> user_input, result |-> "", value |-> "",
     exc |-> NoExc, len0 |-> Len(a.history), llm0 |-> a.llm,
     invocations |-> 0, switched |-> FALSE]

\* No call in progress; `last` names the operation made last ("new", "reset").
IdleFrame(a, last) ==
    [pc |-> last, user_input |-> "", result |-> "", value |-> "",
     exc |-> NoExc, len0 |-> Len(a.history), llm0 |-> a.llm,
     invocations |-> 0, switched |-> FALSE]

FrameDone(f) == f.pc \in {"returned", "raised"}

\* Variant: the user message is not recorded.
RespondAddUserSkipped(a, f) ==
    { [agent |-> a, frame |-> [f EXCEPT !.pc = "invoke"]] }

\* self._chat_history.add_user_message(user_input)
RespondAddUser(a, f) ==
    { [agent |-> AddUserMessage(a, f.user_input),
       frame |-> [f EXCEPT !.pc = "invoke"]] }

\* Variant: a failure that is re-raised takes the user message back.
RespondInvokeRollback(a, f) ==
    { IF o.kind = "ok"
      THEN [agent |-> a,
            frame |-> [f EXCEPT !.pc = "append", !.result = o.content,
                                !.invocations = @ + 1]]
      ELSE IF NeedsLocalFallback(o.exc)
      THEN [agent |-> SwitchToLocalFallback(a),
            frame |-> [f EXCEPT !.pc = "retry", !.exc = o.exc,
                                !.invocations = @ + 1, !.switched = TRUE]]
      ELSE [agent |-> [a EXCEPT !.history = SubSeq(@, 1, Len(@) - 1)],
            frame |-> [f EXCEPT !.pc = "raised", !.exc = o.exc,
                                !.invocations = @ + 1]]
      : o \in ChainOutcomes(a, f.user_input) }

\* try: result = self._chain.invoke(...)  except Exception as exc: ...
RespondInvoke(a, f) ==
    { IF o.kind = "ok"
      THEN [agent |-> a,
            frame |-> [f EXCEPT !.pc = "append", !.result = o.content,
                                !.invocations = @ + 1]]
      ELSE IF NeedsLocalFallback(o.exc)
      THEN [agent |-> SwitchToLocalFallback(a),
            frame |-> [f EXCEPT !.pc = "retry", !.exc = o.exc,
                                !.invocations = @ + 1, !.switched = TRUE]]
      ELSE [agent |-> a,
            frame |-> [f EXCEPT !.pc = "raised", !.exc = o.exc,
                                !.invocations = @ + 1]]
      : o \in ChainOutcomes(a, f.user_input) }

\* Variant: the retry records the user input again before invoking.
RespondRetryReAdd(a, f) ==
    { IF o.kind = "ok"
      THEN [agent |-> AddUserMessage(a, f.user_input),
            frame |-> [f EXCEPT !.pc = "append", !.result = o.content,
                                !.invocations = @ + 1]]
      ELSE [agent |-> AddUserMessage(a, f.user_input),
            frame |-> [f EXCEPT !.pc = "raised", !.exc = o.exc,
                                !.invocations = @ + 1]]
      : o \in ChainOutcomes(a, f.user_input) }

\* the retry inside the except clause: an exception of it leaves respond
RespondRetry(a, f) ==
    { IF o.kind = "ok"
      THEN [agent |-> a,
            frame |-> [f EXCEPT !.pc = "append", !.result = o.content,
                                !.invocations = @ + 1]]
      ELSE [agent |-> a,
            frame |-> [f EXCEPT !.pc = "raised", !.exc = o.exc,
                                !.invocations = @ + 1]]
      : o \in ChainOutcomes(a, f.user_input) }

\* self._chat_history.add_ai_message(reply); return reply.strip()
RespondAppend(a, f) ==
    { [agent |-> AddAiMessage(a, f.result),
       frame |-> [f EXCEPT !.pc = "returned", !.value = Strip(f.result)]] }

\* The next steps of a call of respond in frame f on agent a.
RespondStep(a, f) ==
    CASE f.pc = "add_user" -> RespondAddUser(a, f)
      [] f.pc = "invoke"   -> RespondInvoke(a, f)
      [] f.pc = "retry"    -> RespondRetry(a, f)
      [] f.pc = "append"   -> RespondAppend(a, f)
      [] OTHER             -> {}

(***************************************************************************)
(* DuckOverlayWindow (ui/duck_overlay.py): constants.                      *)
(***************************************************************************)
\* The available geometry of the primary screen and the sprite's width.
ScreenLeft == 0
ScreenWidth == 11
SpriteWidth == 4
\* How far beyond an edge of the screen a drag can leave the sprite.
DragMargin == 4

\* self._speed_px
SpeedPx == 3
\* self._chatbox_timer.start(3000)
AutoHideMs == 3000

\* geom.right() is the last column of the geometry.
ScreenRight == ScreenLeft + ScreenWidth - 1
MinX == ScreenLeft
MaxX == ScreenRight - SpriteWidth

Actions == {"click", "chat", "joke", "touch"}
MenuActions == {"chat", "joke", "touch"}

ActionPrompts ==
    [a \in Actions |->
       CASE a = "click" ->
              "A user taps you on their desktop seeking help. Introduce yourself as Nova the Super Duck of the "
              \o "Multiverse, offer immediate assistance on anything, and invite them to ask for specifics."
         [] a = "chat" ->
              "The user opens a context menu and selects 'Chat'. Greet them warmly as Nova the Super Duck, summarize "
              \o "how you can help with life, code, or creativity, and politely ask what they'd like to do next."
         [] a = "joke" ->
              "The user selects 'Joke' from a context menu. Reply as Nova the Super Duck with a single playful, "
              \o "cosmic-themed joke or pun (keep it under three sentences) and add a cheerful emoji."
         [] a = "touch" ->
              "The user gently boops or pats Nova by choosing 'Touch'. React with delight, describe a cute physical "
              \o "animation, and invite them to keep interacting."]

\* The click preview ends in an emoji, left out here.
ActionPreviews ==
    [a \in Actions |->
       CASE a = "click" -> "Nova is tuning in... "
         [] a = "chat"  -> "Nova leans in to chat..."
         [] a = "joke"  -> "Nova riffling through joke scrolls..."
         [] a = "touch" -> "Nova fluffs feathers from the boop!"]

InitialBubbleText == "Summoning cosmic quacks..."
SpeechlessText == "Nova is momentarily speechless, try again!"
RuffledText == "My cosmic feathers got ruffled. Try again soon!"

\* self._action_prompts.get(action, self._action_prompts["click"])
BuildActionPrompt(action) ==
    IF action \in DOMAIN ActionPrompts THEN ActionPrompts[action] ELSE ActionPrompts["click"]

\* self._action_previews.get(action, self._action_previews["click"])
ActionPreview(action) ==
    IF action \in DOMAIN ActionPreviews THEN ActionPreviews[action] ELSE ActionPreviews["click"]

\* traceback.format_exc(): the text the errored signal carries.
FormatExc(exc) ==
    "Traceback (most recent call last):\n" \o exc.type \o ": " \o exc.msg \o "\n"

(***************************************************************************)
(* State.                                                                  *)
(***************************************************************************)
VARIABLES
    agent,            \* a PetAgent used by one sequential caller
    call,             \* that caller: the respond frame in progress, or the last operation
    shown,            \* the overlay widget is visible
    x,                \* self.x(): the overlay's horizontal position
    direction,        \* self._direction: 1 | -1
    timerActive,      \* self._timer.isActive(): the animation tick timer
    isDragging,       \* self._is_dragging
    didDrag,          \* self._did_drag
    isPaused,         \* self._is_paused
    menuForcedPause,  \* self._menu_forced_pause
    menuOpen,         \* the context menu is popped up
    isGenerating,     \* self._is_generating
    workers,          \* self._worker_threads: worker id -> the worker and its thread
    uiQueue,          \* signals of workers queued for the UI thread, oldest first
    chatText,         \* the text of self._chatbox_label
    chatVisible,      \* self._chatbox_label is shown
    chatTimerActive,  \* self._chatbox_timer.isActive(): the auto-hide timer
    duckAgent,        \* self._agent: the overlay's PetAgent
    winVisible,       \* chat_window.isVisible()
    winAgent,         \* the chat window's self._agent
    inputText,        \* self.input_box.text()
    winWaiting,       \* the input box, send button and reset button are disabled
    transcript        \* the paragraphs of self.chat_view, oldest first

sessionVars == << agent, call >>
motionVars == << shown, x, direction, timerActive, isDragging, didDrag, isPaused,
                 menuForcedPause, menuOpen >>
bubbleVars == << chatText, chatVisible, chatTimerActive >>
dispatchVars == << isGenerating, workers, uiQueue, duckAgent >>
duckVars == << motionVars, bubbleVars, dispatchVars >>
windowVars == << winVisible, winAgent, inputText, winWaiting, transcript >>

vars == << sessionVars, duckVars, windowVars >>

\* DuckOverlayWindow.__init__: the overlay before it is shown.
DuckInit(llm) ==
    /\ shown = FALSE
    /\ x = 0
    /\ direction = 1
    /\ timerActive = FALSE
    /\ isDragging = FALSE
    /\ didDrag = FALSE
    /\ isPaused = FALSE
    /\ menuForcedPause = FALSE
    /\ menuOpen = FALSE
    /\ isGenerating = FALSE
    /\ workers = << >>
    /\ uiQueue = << >>
    /\ chatText = InitialBubbleText
    /\ chatVisible = FALSE
    /\ chatTimerActive = FALSE
    /\ duckAgent = NewAgent(llm)

(***************************************************************************)
(* DesktopPetWindow (ui/window.py): the transcript's paragraphs.           *)
(***************************************************************************)
WelcomeText == "Pixel is awake and bouncing on your desktop!"
FreshStartText == "Fresh start! Pixel shakes off the sleepies."

\* html.escape on one character (quote=True)
HtmlEscapeChar(c) ==
    CASE c = "&"  -> "&amp;"
      [] c = "<"  -> "&lt;"
      [] c = ">"  -> "&gt;"
      [] c = "\"" -> "&quot;"
      [] c = "'"  -> "&#x27;"
      [] OTHER    -> c

\* html.escape(s), the two halves of s at a time.  (t is s, bound as the
\* element of a singleton so that it is computed once.)
RECURSIVE HtmlEscape(_)
HtmlEscape(s) ==
    CHOOSE r \in
       { IF Len(t) = 0 THEN ""
         ELSE IF Len(t) = 1 THEN HtmlEscapeChar(t)
         ELSE HtmlEscape(SubSeq(t, 1, Len(t) \div 2))
                 \o HtmlEscape(SubSeq(t, (Len(t) \div 2) + 1, Len(t)))
         : t \in {s} } : TRUE

\* s.replace("\n", "<br>"), in the same way
RECURSIVE NlToBr(_)
NlToBr(s) ==
    CHOOSE r \in
       { IF Len(t) = 0 THEN ""
         ELSE IF Len(t) = 1 THEN (IF t = "\n" THEN "<br>" ELSE t)
         ELSE NlToBr(SubSeq(t, 1, Len(t) \div 2))
                 \o NlToBr(SubSeq(t, (Len(t) \div 2) + 1, Len(t)))
         : t \in {s} } : TRUE

\* The paragraph _append_message adds to the transcript.
Paragraph(speaker, message) ==
    "<b>" \o HtmlEscape(speaker) \o ":</b> " \o NlToBr(HtmlEscape(message))

\* DesktopPetWindow.__init__ and run_app: the chat window, built and hidden.
WindowInit(llm) ==
    /\ winVisible = FALSE
    /\ winAgent = NewAgent(llm)
    /\ inputText = ""
    /\ winWaiting = FALSE
    /\ transcript = << Paragraph("Pixel", WelcomeText) >>

CallIdle == call.pc \in {"new", "reset", "returned", "raised"}

\* The texts the sequential caller passes to respond.
UserTexts == {"", "tell me a joke", " Hi there ", "status"}

(***************************************************************************)
(* A session used by one caller at a time: respond and reset in sequence.  *)
(***************************************************************************)
InitAgent ==
    /\ agent \in {NewAgent(v) : v \in LlmVariants}
    /\ call = IdleFrame(agent, "new")
    /\ DuckInit("local")
    /\ WindowInit("local")

CallRespond(text) ==
    /\ CallIdle
    /\ Len(agent.history) < MaxHistory
    /\ call' = RespondFrame(agent, text)
    /\ UNCHANGED << agent, duckVars, windowVars >>

CallStep ==
    /\ \E n \in RespondStep(agent, call) :
          /\ agent' = n.agent
          /\ call' = n.frame
    /\ UNCHANGED << duckVars, windowVars >>

CallReset ==
    /\ CallIdle
    /\ agent' = ResetAgent(agent)
    /\ call' = IdleFrame(agent, "reset")
    /\ UNCHANGED << duckVars, windowVars >>

NextAgent ==
    \/ \E text \in UserTexts : CallRespond(text)
    \/ CallStep
    \/ CallReset

SpecAgent == InitAgent /\ [][NextAgent]_vars

(***************************************************************************)
(* The local model on its own: _generate is called with a prompt whose     *)
(* last message is the user's text, after an earlier exchange or none, and *)
(* returns a reply crafted from it.                                        *)
(***************************************************************************)
\* The user's text is up to MaxWords of these, one after the other.
MaxWords == 2

Words ==
    { "", " ", "\n", "joke", "a JoKe ", "tired", "BREAK", "hello", "Hi", "status", "{cue}",
      "0123456789012345678901234567890123456789+" }

RECURSIVE TextsOf(_)
TextsOf(n) ==
    IF n = 0 THEN {""} ELSE {w \o t : w \in Words, t \in TextsOf(n - 1)}

LocalTexts == TextsOf(MaxWords)

\* The exchanges the history can hold when the model is called.
EarlierHistories ==
    { << >>,
      << Msg("human", "tell me a joke"), Msg("ai", JokeReply) >>,
      << Msg("human", "hello") >> }

InitLocal ==
    /\ agent \in {[NewAgent("local") EXCEPT !.history = h] : h \in EarlierHistories}
    /\ call = IdleFrame(agent, "new")
    /\ DuckInit("local")
    /\ WindowInit("local")

\* self._chain.invoke({"user_input": text}) reaches _generate with the prompt
GenerateCall(text) ==
    /\ call.pc = "new"
    /\ call' = [IdleFrame(agent, "generate") EXCEPT !.user_input = text]
    /\ UNCHANGED << agent, duckVars, windowVars >>

\* _generate returns the ChatResult of the reply _craft_reply made
GenerateReturn ==
    /\ call.pc = "generate"
    /\ \E reply \in LocalGenerate(PromptMessages(agent, call.user_input)) :
          call' = [call EXCEPT !.pc = "generated", !.result = reply]
    /\ UNCHANGED << agent, duckVars, windowVars >>

NextLocal ==
    \/ \E text \in LocalTexts : GenerateCall(text)
    \/ GenerateReturn

SpecLocal == InitLocal /\ [][NextLocal]_vars

(***************************************************************************)
(* create_chat_model (models/factory.py) on its own.  The process is what  *)
(* the module reads: whether langchain_openai could be imported, the       *)
(* version of the runtime, the environment after load_dotenv(), and the    *)
(* flag _warned_py314.  A value that may be None is a sequence of at most  *)
(* one string.                                                             *)
(***************************************************************************)
None == << >>
Some(s) == << s >>

\* bool(v) for v: str | None
Truthy(v) == v # None /\ v[1] # ""

\* a or b
Or(a, b) == IF Truthy(a) THEN a ELSE b

\* s.rstrip("/")
RECURSIVE RStripSlash(_)
RStripSlash(s) ==
    IF Len(s) > 0 /\ SubSeq(s, Len(s), Len(s)) = "/"
    THEN RStripSlash(SubSeq(s, 1, Len(s) - 1))
    ELSE s

\* ChatModelSettings(model_name, temperature, base_url, api_key)
ChatModelSettings(base_url, api_key) ==
    [model_name |-> "grok-4-fast", temperature |-> "0.6",
     base_url |-> base_url, api_key |-> api_key]

BaseUrls == {None, Some(""), Some("/"), Some("https://grok.example/v1//")}
ApiKeys == {None, Some(""), Some("token")}
EnvBaseUrls == {None, Some(""), Some("https://env.example")}
EnvApiKeys == {None, Some(""), Some("env-token")}

\* _runtime_supports_remote: its value, and _warned_py314 after it
RuntimeSupportsRemote(process) ==
    [value |-> ~process.py314_or_newer,
     warned |-> process.warned \/ process.py314_or_newer]

LocalPetChatModel == [variant |-> "local"]

\* ChatOpenAI(model=..., temperature=..., base_url=..., api_key=..., max_retries=2)
ChatOpenAI(model, temperature, base_url, api_key) ==
    [variant |-> "remote", model |-> model, temperature |-> temperature,
     base_url |-> base_url, api_key |-> api_key, max_retries |-> 2]

\* Variant: the settings alone are looked at, not the environment.
BuildGrokModelSettingsOnly(process, settings) ==
    IF ~process.importable THEN [model |-> None, warned |-> process.warned]
    ELSE IF ~RuntimeSupportsRemote(process).value
    THEN [model |-> None, warned |-> RuntimeSupportsRemote(process).warned]
    ELSE IF ~Truthy(settings.base_url) \/ ~Truthy(settings.api_key)
         THEN [model |-> None, warned |-> process.warned]
         ELSE [model |-> Some(ChatOpenAI(settings.model_name, settings.temperature,
                                         RStripSlash(settings.base_url[1]),
                                         settings.api_key[1])),
               warned |-> process.warned]

\* _build_grok_model: the client or None, and _warned_py314 after it.  The
\* runtime is asked only if the import succeeded.
BuildGrokModel(process, settings) ==
    IF ~process.importable THEN [model |-> None, warned |-> process.warned]
    ELSE IF ~RuntimeSupportsRemote(process).value
    THEN [model |-> None, warned |-> RuntimeSupportsRemote(process).warned]
    ELSE LET base_url == Or(settings.base_url, process.env.GROK_BASE_URL)
             api_key == Or(settings.api_key, process.env.GROK_AUTH_TOKEN)
         IN  IF ~Truthy(base_url) \/ ~Truthy(api_key)
             THEN [model |-> None, warned |-> process.warned]
             ELSE [model |-> Some(ChatOpenAI(settings.model_name, settings.temperature,
                                             RStripSlash(base_url[1]), api_key[1])),
                   warned |-> process.warned]

\* create_chat_model: the model it returns, and _warned_py314 after it
CreateChatModelResult(process, settings) ==
    LET built == BuildGrokModel(process, settings)
    IN  [model |-> IF built.model # None THEN built.model[1] ELSE LocalPetChatModel,
         warned |-> built.warned]

\* The process, the settings of the call, and the models made so far: run_app
\* makes two agents, the chat window's and then the overlay's.
InitFactory ==
    /\ \E importable \in BOOLEAN, py314 \in BOOLEAN,
          base_url \in BaseUrls, api_key \in ApiKeys,
          env_url \in EnvBaseUrls, env_key \in EnvApiKeys :
          call = [pc |-> "new",
                  process |-> [importable |-> importable, py314_or_newer |-> py314,
                               warned |-> FALSE,
                               env |-> [GROK_BASE_URL |-> env_url,
                                        GROK_AUTH_TOKEN |-> env_key]],
                  settings |-> ChatModelSettings(base_url, api_key),
                  models |-> << >>]
    /\ agent = NewAgent("local")
    /\ DuckInit("local")
    /\ WindowInit("local")

\* PetAgent.__post_init__: llm = create_chat_model(self.config)
CreateChatModel ==
    /\ call.pc \in {"new", "window agent"}
    /\ \E made \in {CreateChatModelResult(call.process, call.settings)} :
          /\ call' = [call EXCEPT
                        !.pc = IF call.pc = "new" THEN "window agent" ELSE "both agents",
                        !.process.warned = made.warned,
                        !.models = Append(@, made.model)]
          /\ agent' = NewAgent(made.model.variant)
    /\ UNCHANGED << duckVars, windowVars >>

NextFactory == CreateChatModel

SpecFactory == InitFactory /\ [][NextFactory]_vars

(***************************************************************************)
(* DuckOverlayWindow: pause, bubble and dispatch helpers.  Each is the     *)
(* effect of the method of the same name on the fields it touches.         *)
(***************************************************************************)
\* _set_paused: _apply_pixmap / _apply_movie only change what is painted.
SetPaused(paused) ==
    IF isPaused = paused
    THEN UNCHANGED << isPaused, timerActive >>
    ELSE /\ isPaused' = paused
         /\ timerActive' = ~paused

TogglePause == SetPaused(~isPaused)

\* _handle_context_menu_closed (without the menu's own visibility)
HandleContextMenuClosed ==
    IF ~menuForcedPause
    THEN UNCHANGED << menuForcedPause, isPaused, timerActive >>
    ELSE /\ menuForcedPause' = FALSE
         /\ SetPaused(FALSE)

\* Variant: the auto-hide timer is started whatever auto_hide says.
ShowChatboxAlwaysArmed(text, auto_hide) ==
    /\ chatText' = text
    /\ chatVisible' = TRUE
    /\ chatTimerActive' = TRUE

\* _show_chatbox(auto_hide) after setText(text)
ShowChatbox(text, auto_hide) ==
    /\ chatText' = text
    /\ chatVisible' = TRUE
    /\ chatTimerActive' = auto_hide

\* A fresh worker object: the least id no live worker has.
NewWorkerId ==
    CHOOSE i \in 1..(Cardinality(DOMAIN workers) + 1) : i \notin DOMAIN workers

\* The session a worker was given: the overlay's or the chat window's.
AgentOf(owner) == IF owner = "duck" THEN duckAgent ELSE winAgent

\* AgentWorker(agent, user_text), made by owner with its own agent
NewWorker(owner, user_text) ==
    [pc |-> "started", owner |-> owner, user_text |-> user_text,
     frame |-> IdleFrame(AgentOf(owner), "new"), emitted |-> << >>]

\* _start_worker: AgentWorker(self._agent, user_text) on a started QThread
StartWorker(user_text) ==
    LET id == NewWorkerId
    IN  workers' = [w \in DOMAIN workers \cup {id} |->
                      IF w = id THEN NewWorker("duck", user_text) ELSE workers[w]]

\* run_app's _handle_duck_click: the chat window is shown, or raised
HandleDuckClick ==
    /\ winVisible' = TRUE
    /\ UNCHANGED << winAgent, inputText, winWaiting, transcript >>

\* Variant: no check of the pending flag.
RequestDuckReplyUnguarded(action) ==
    /\ isGenerating' = TRUE
    /\ ShowChatbox(ActionPreview(action), FALSE)
    /\ StartWorker(BuildActionPrompt(action))

\* _request_duck_reply
RequestDuckReply(action) ==
    IF isGenerating
    THEN UNCHANGED << isGenerating, bubbleVars, workers >>
    ELSE /\ isGenerating' = TRUE
         /\ ShowChatbox(ActionPreview(action), FALSE)
         /\ StartWorker(BuildActionPrompt(action))

\* The environment asks for no reply that would grow a full history.
HistoryRoom == isGenerating \/ Len(duckAgent.history) < MaxHistory

(***************************************************************************)
(* DuckOverlayWindow: the event handlers, one action each.                 *)
(***************************************************************************)
\* primaryScreen() is a screen, or None.
ScreenStates == {TRUE, FALSE}
\* Where a drag can take the overlay, and whether the pointer moved vertically.
DragXs == (MinX - DragMargin)..(MaxX + DragMargin)
DragDys == {0, 1}

Abs(n) == IF n < 0 THEN 0 - n ELSE n

\* showEvent: _place_initial, then the tick timer is started if it is not running
ShowEvent(screen) ==
    /\ ~shown
    /\ shown' = TRUE
    /\ x' = IF screen THEN ScreenLeft + (ScreenWidth \div 2) ELSE x
    /\ timerActive' = TRUE
    /\ UNCHANGED << direction, isDragging, didDrag, isPaused, menuForcedPause,
                    menuOpen, bubbleVars, dispatchVars, sessionVars, windowVars >>

\* hideEvent
HideEvent ==
    /\ shown
    /\ shown' = FALSE
    /\ chatVisible' = FALSE
    /\ UNCHANGED << x, direction, timerActive, isDragging, didDrag, isPaused,
                    menuForcedPause, menuOpen, chatText, chatTimerActive,
                    dispatchVars, sessionVars, windowVars >>

\* Variant: the press is handled only when no respond call is in progress,
\* as it would be if the call ran on the UI thread.
MousePressAfterRespond ==
    /\ \A id \in DOMAIN workers : workers[id].pc # "responding"
    /\ shown
    /\ isDragging' = TRUE
    /\ didDrag' = FALSE
    /\ timerActive' = IF ~isPaused /\ timerActive THEN FALSE ELSE timerActive
    /\ UNCHANGED << shown, x, direction, isPaused, menuForcedPause, menuOpen,
                    bubbleVars, dispatchVars, sessionVars, windowVars >>

\* mousePressEvent, left button
MousePress ==
    /\ shown
    /\ isDragging' = TRUE
    /\ didDrag' = FALSE
    /\ timerActive' = IF ~isPaused /\ timerActive THEN FALSE ELSE timerActive
    /\ UNCHANGED << shown, x, direction, isPaused, menuForcedPause, menuOpen,
                    bubbleVars, dispatchVars, sessionVars, windowVars >>

\* mouseMoveEvent with the left button held: the overlay follows the pointer
\* to tx; dy tells whether the pointer also moved vertically.
MouseMove(tx, dy) ==
    /\ shown
    /\ isDragging
    /\ x' = tx
    /\ didDrag' = (didDrag \/ Abs(tx - x) + dy >= 1)
    /\ UNCHANGED << shown, direction, timerActive, isDragging, isPaused,
                    menuForcedPause, menuOpen, bubbleVars, dispatchVars,
                    sessionVars, windowVars >>

\* Variant: a click made while a dispatch is in flight is dropped whole.
MouseReleaseDroppedWhilePending ==
    /\ shown
    /\ isDragging
    /\ isDragging' = FALSE
    /\ didDrag' = FALSE
    /\ IF didDrag
       THEN /\ timerActive' = IF ~isPaused /\ ~timerActive THEN TRUE ELSE timerActive
            /\ UNCHANGED << isPaused, bubbleVars, dispatchVars, windowVars >>
       ELSE IF isGenerating
       THEN UNCHANGED << isPaused, timerActive, bubbleVars, dispatchVars, windowVars >>
       ELSE /\ HistoryRoom
            /\ HandleDuckClick
            /\ TogglePause
            /\ RequestDuckReply("click")
            /\ UNCHANGED << uiQueue, duckAgent >>
    /\ UNCHANGED << shown, x, direction, menuForcedPause, menuOpen, sessionVars >>

\* Variant: every release is taken for a click, moved or not.
MouseReleaseAlwaysClick ==
    /\ shown
    /\ isDragging
    /\ isDragging' = FALSE
    /\ didDrag' = FALSE
    /\ HistoryRoom
    /\ HandleDuckClick
    /\ TogglePause
    /\ RequestDuckReply("click")
    /\ UNCHANGED << uiQueue, duckAgent >>
    /\ UNCHANGED << shown, x, direction, menuForcedPause, menuOpen, sessionVars >>

\* mouseReleaseEvent, left button: the end of a drag, or a plain click
MouseRelease ==
    /\ shown
    /\ isDragging
    /\ isDragging' = FALSE
    /\ didDrag' = FALSE
    /\ IF didDrag
       THEN /\ timerActive' = IF ~isPaused /\ ~timerActive THEN TRUE ELSE timerActive
            /\ UNCHANGED << isPaused, bubbleVars, dispatchVars, windowVars >>
       ELSE /\ HistoryRoom
            /\ HandleDuckClick
            /\ TogglePause
            /\ RequestDuckReply("click")
            /\ UNCHANGED << uiQueue, duckAgent >>
    /\ UNCHANGED << shown, x, direction, menuForcedPause, menuOpen, sessionVars >>

\* contextMenuEvent
ContextMenuEvent ==
    /\ shown
    /\ ~menuOpen
    /\ menuForcedPause' = ~isPaused
    /\ SetPaused(TRUE)
    /\ menuOpen' = TRUE
    /\ UNCHANGED << shown, x, direction, isDragging, didDrag, bubbleVars,
                    dispatchVars, sessionVars, windowVars >>

\* A menu entry is chosen: the menu hides (aboutToHide), the entry triggers.
MenuTrigger(action) ==
    /\ menuOpen
    /\ HistoryRoom
    /\ menuOpen' = FALSE
    /\ HandleContextMenuClosed
    /\ RequestDuckReply(action)
    /\ UNCHANGED << shown, x, direction, isDragging, didDrag, uiQueue,
                    duckAgent, sessionVars, windowVars >>

\* The menu is dismissed without a choice: aboutToHide only.
MenuDismiss ==
    /\ menuOpen
    /\ menuOpen' = FALSE
    /\ HandleContextMenuClosed
    /\ UNCHANGED << shown, x, direction, isDragging, didDrag, bubbleVars,
                    dispatchVars, sessionVars, windowVars >>

\* Variant: the position is clamped at an edge, the direction is kept.
AnimateStepClampOnly(screen) ==
    /\ timerActive
    /\ IF ~screen
       THEN UNCHANGED << x, direction >>
       ELSE LET new_x == x + (direction * SpeedPx)
            IN  /\ x' = IF new_x <= MinX THEN MinX
                        ELSE IF new_x >= MaxX THEN MaxX ELSE new_x
                /\ UNCHANGED direction
    /\ UNCHANGED << shown, timerActive, isDragging, didDrag, isPaused,
                    menuForcedPause, menuOpen, bubbleVars, dispatchVars,
                    sessionVars, windowVars >>

\* Variant: the direction turns at an edge, the position is not clamped.
AnimateStepNoClamp(screen) ==
    /\ timerActive
    /\ IF ~screen
       THEN UNCHANGED << x, direction >>
       ELSE LET new_x == x + (direction * SpeedPx)
            IN  /\ x' = new_x
                /\ direction' = IF new_x <= MinX THEN 1
                                ELSE IF new_x >= MaxX THEN -1 ELSE direction
    /\ UNCHANGED << shown, timerActive, isDragging, didDrag, isPaused,
                    menuForcedPause, menuOpen, bubbleVars, dispatchVars,
                    sessionVars, windowVars >>

\* _animate_step: a timeout of the tick timer
AnimateStep(screen) ==
    /\ timerActive
    /\ IF ~screen
       THEN UNCHANGED << x, direction >>
       ELSE LET new_x == x + (direction * SpeedPx)
            IN  IF new_x <= MinX
                THEN x' = MinX /\ direction' = 1
                ELSE IF new_x >= MaxX
                THEN x' = MaxX /\ direction' = -1
                ELSE x' = new_x /\ UNCHANGED direction
    /\ UNCHANGED << shown, timerActive, isDragging, didDrag, isPaused,
                    menuForcedPause, menuOpen, bubbleVars, dispatchVars,
                    sessionVars, windowVars >>

\* The single-shot auto-hide timer fires: self._chatbox_label.hide()
ChatboxTimeout ==
    /\ chatTimerActive
    /\ chatTimerActive' = FALSE
    /\ chatVisible' = FALSE
    /\ UNCHANGED << chatText, motionVars, dispatchVars, sessionVars, windowVars >>

(***************************************************************************)
(* AgentWorker.run on its thread (ui/worker.py), one step at a time.       *)
(*   "started" -> "responding" -> "emit_finished" -> "done"                *)
(* `emitted` lists the signals the worker has emitted so far.              *)
(***************************************************************************)
\* A signal of worker sender, queued for the slots its owner connected.
Signal(sig, sender, arg) ==
    [sig |-> sig, sender |-> sender, to |-> workers[sender].owner, arg |-> arg]

\* thread.started -> worker.run: respond is entered
WorkerRun(id) ==
    /\ workers[id].pc = "started"
    /\ workers' = [workers EXCEPT ![id].pc = "responding",
                                  ![id].frame = RespondFrame(AgentOf(workers[id].owner),
                                                             workers[id].user_text)]
    /\ UNCHANGED << isGenerating, uiQueue, duckAgent, motionVars, bubbleVars,
                    sessionVars, windowVars >>

\* one step of self._agent.respond(self._user_text)
WorkerRespond(id) ==
    /\ workers[id].pc = "responding"
    /\ \E n \in RespondStep(AgentOf(workers[id].owner), workers[id].frame) :
          /\ duckAgent' = IF workers[id].owner = "duck" THEN n.agent ELSE duckAgent
          /\ winAgent' = IF workers[id].owner = "window" THEN n.agent ELSE winAgent
          /\ workers' = [workers EXCEPT ![id].frame = n.frame]
    /\ UNCHANGED << isGenerating, uiQueue, motionVars, bubbleVars, sessionVars,
                    winVisible, inputText, winWaiting, transcript >>

\* The signal run emits for the outcome of respond.
ResultSignal(id) ==
    IF workers[id].frame.pc = "returned"
    THEN Signal("responded", id, workers[id].frame.value)
    ELSE Signal("errored", id, FormatExc(workers[id].frame.exc))

\* Variant: no except clause; an exception of respond passes through run,
\* which emits finished on its way out.
WorkerEmitResultNoExcept(id) ==
    /\ workers[id].pc = "responding"
    /\ FrameDone(workers[id].frame)
    /\ IF workers[id].frame.pc = "returned"
       THEN /\ uiQueue' = Append(uiQueue, ResultSignal(id))
            /\ workers' = [workers EXCEPT ![id].pc = "emit_finished",
                                          ![id].emitted = Append(@, "responded")]
       ELSE /\ uiQueue' = uiQueue
            /\ workers' = [workers EXCEPT ![id].pc = "emit_finished"]
    /\ UNCHANGED << isGenerating, duckAgent, motionVars, bubbleVars, sessionVars, windowVars >>

\* self.responded.emit(reply), or except Exception: self.errored.emit(...)
WorkerEmitResult(id) ==
    /\ workers[id].pc = "responding"
    /\ FrameDone(workers[id].frame)
    /\ uiQueue' = Append(uiQueue, ResultSignal(id))
    /\ workers' = [workers EXCEPT ![id].pc = "emit_finished",
                                  ![id].emitted = Append(@, ResultSignal(id).sig)]
    /\ UNCHANGED << isGenerating, duckAgent, motionVars, bubbleVars, sessionVars, windowVars >>

\* finally: self.finished.emit()
WorkerEmitFinished(id) ==
    /\ workers[id].pc = "emit_finished"
    /\ uiQueue' = Append(uiQueue, Signal("finished", id, ""))
    /\ workers' = [workers EXCEPT ![id].pc = "done",
                                  ![id].emitted = Append(@, "finished")]
    /\ UNCHANGED << isGenerating, duckAgent, motionVars, bubbleVars, sessionVars, windowVars >>

(***************************************************************************)
(* The UI thread handles the queued signals in the order of their emission.*)
(***************************************************************************)
\* Variant: the pending flag is cleared as soon as the reply is shown.
HandleAgentReplyClearingFlag ==
    /\ uiQueue # << >>
    /\ Head(uiQueue).sig = "responded"
    /\ Head(uiQueue).to = "duck"
    /\ uiQueue' = Tail(uiQueue)
    /\ LET reply == Head(uiQueue).arg
           message == IF Strip(reply) # "" THEN Strip(reply) ELSE SpeechlessText
       IN  ShowChatbox(message, TRUE)
    /\ isGenerating' = FALSE
    /\ UNCHANGED << workers, duckAgent, motionVars, sessionVars, windowVars >>

\* _handle_agent_reply
HandleAgentReply ==
    /\ uiQueue # << >>
    /\ Head(uiQueue).sig = "responded"
    /\ Head(uiQueue).to = "duck"
    /\ uiQueue' = Tail(uiQueue)
    /\ LET reply == Head(uiQueue).arg
           message == IF Strip(reply) # "" THEN Strip(reply) ELSE SpeechlessText
       IN  ShowChatbox(message, TRUE)
    /\ UNCHANGED << isGenerating, workers, duckAgent, motionVars, sessionVars, windowVars >>

\* Variant: the error also pauses the sprite.
HandleAgentErrorPausing ==
    /\ uiQueue # << >>
    /\ Head(uiQueue).sig = "errored"
    /\ Head(uiQueue).to = "duck"
    /\ uiQueue' = Tail(uiQueue)
    /\ ShowChatbox(RuffledText, TRUE)
    /\ SetPaused(TRUE)
    /\ UNCHANGED << isGenerating, workers, duckAgent, shown, x, direction,
                    isDragging, didDrag, menuForcedPause, menuOpen, sessionVars,
                    windowVars >>

\* Variant: the apology is shown like a preview, with no auto-hide.
HandleAgentErrorKeptOpen ==
    /\ uiQueue # << >>
    /\ Head(uiQueue).sig = "errored"
    /\ Head(uiQueue).to = "duck"
    /\ uiQueue' = Tail(uiQueue)
    /\ ShowChatbox(RuffledText, FALSE)
    /\ UNCHANGED << isGenerating, workers, duckAgent, motionVars, sessionVars, windowVars >>

\* _handle_agent_error
HandleAgentError ==
    /\ uiQueue # << >>
    /\ Head(uiQueue).sig = "errored"
    /\ Head(uiQueue).to = "duck"
    /\ uiQueue' = Tail(uiQueue)
    /\ ShowChatbox(RuffledText, TRUE)
    /\ UNCHANGED << isGenerating, workers, duckAgent, motionVars, sessionVars, windowVars >>

\* Variant: the pending flag is left as it is.
CleanupWorkerKeepFlag(sender) ==
    /\ workers' = [w \in DOMAIN workers \ {sender} |-> workers[w]]
    /\ UNCHANGED isGenerating

\* _cleanup_worker: the thread is quit and waited for, the worker deleted
CleanupWorker(sender) ==
    /\ workers' = [w \in DOMAIN workers \ {sender} |-> workers[w]]
    /\ isGenerating' = FALSE

\* _handle_worker_finished
HandleWorkerFinished ==
    /\ uiQueue # << >>
    /\ Head(uiQueue).sig = "finished"
    /\ Head(uiQueue).to = "duck"
    /\ uiQueue' = Tail(uiQueue)
    /\ LET sender == Head(uiQueue).sender
       IN  IF sender \notin DOMAIN workers
           THEN UNCHANGED << workers, isGenerating >>
           ELSE CleanupWorker(sender)
    /\ UNCHANGED << duckAgent, motionVars, bubbleVars, sessionVars, windowVars >>

(***************************************************************************)
(* DesktopPetWindow (ui/window.py): the handlers, one action each.  The    *)
(* user reaches the input box and the two buttons only while the window is *)
(* visible and they are enabled.                                           *)
(***************************************************************************)
\* What the user types into the input box.
WinTexts == {" ", "a joke <3"}

\* _append_message
AppendMessage(speaker, message) ==
    transcript' = Append(transcript, Paragraph(speaker, message))

\* Variant: only the pet label changes, the controls stay enabled.
SetWaitingLabelOnly(waiting) == UNCHANGED winWaiting

\* _set_waiting: the three controls are disabled, or enabled, together
SetWaiting(waiting) == winWaiting' = waiting

\* self.pet_label.text(), as _set_waiting leaves it
PetLabelText == IF winWaiting THEN "=^o^=" ELSE "=^.^="

\* DesktopPetWindow._start_worker
WinStartWorker(user_text) ==
    LET id == NewWorkerId
    IN  workers' = [w \in DOMAIN workers \cup {id} |->
                      IF w = id THEN NewWorker("window", user_text) ELSE workers[w]]

\* The environment sends nothing that would grow a full history.
WinHistoryRoom == Len(winAgent.history) < MaxHistory

\* The user edits the input box.
InputEdit(text) ==
    /\ winVisible
    /\ ~winWaiting
    /\ text # inputText
    /\ inputText' = text
    /\ UNCHANGED << winVisible, winAgent, winWaiting, transcript, duckVars,
                    sessionVars >>

\* Variant: one pending flag for both owners; a send made while the overlay
\* awaits a reply is dropped.
HandleSendSharedFlag ==
    /\ winVisible
    /\ ~winWaiting
    /\ WinHistoryRoom
    /\ LET text == Strip(inputText)
       IN  IF text = "" \/ isGenerating
           THEN UNCHANGED << transcript, inputText, winWaiting, workers >>
           ELSE /\ AppendMessage("You", text)
                /\ inputText' = ""
                /\ SetWaiting(TRUE)
                /\ WinStartWorker(text)
    /\ UNCHANGED << winVisible, winAgent, isGenerating, uiQueue, duckAgent,
                    motionVars, bubbleVars, sessionVars >>

\* _handle_send: the send button is clicked, or return is pressed in the box
HandleSend ==
    /\ winVisible
    /\ ~winWaiting
    /\ WinHistoryRoom
    /\ LET text == Strip(inputText)
       IN  IF text = ""
           THEN UNCHANGED << transcript, inputText, winWaiting, workers >>
           ELSE /\ AppendMessage("You", text)
                /\ inputText' = ""
                /\ SetWaiting(TRUE)
                /\ WinStartWorker(text)
    /\ UNCHANGED << winVisible, winAgent, isGenerating, uiQueue, duckAgent,
                    motionVars, bubbleVars, sessionVars >>

\* Variant: the view is not cleared, the fresh start is appended to it.
HandleResetKeepTranscript ==
    /\ winVisible
    /\ ~winWaiting
    /\ winAgent' = ResetAgent(winAgent)
    /\ AppendMessage("Pixel", FreshStartText)
    /\ UNCHANGED << winVisible, inputText, winWaiting, duckVars, sessionVars >>

\* _handle_reset: the reset button is clicked
HandleReset ==
    /\ winVisible
    /\ ~winWaiting
    /\ winAgent' = ResetAgent(winAgent)
    /\ transcript' = << Paragraph("Pixel", FreshStartText) >>
    /\ UNCHANGED << winVisible, inputText, winWaiting, duckVars, sessionVars >>

\* worker.responded -> lambda reply: self._append_message("Pixel", reply)
WinHandleResponded ==
    /\ uiQueue # << >>
    /\ Head(uiQueue).sig = "responded"
    /\ Head(uiQueue).to = "window"
    /\ uiQueue' = Tail(uiQueue)
    /\ AppendMessage("Pixel", Head(uiQueue).arg)
    /\ UNCHANGED << winVisible, winAgent, inputText, winWaiting, isGenerating,
                    workers, duckAgent, motionVars, bubbleVars, sessionVars >>

\* Variant: the failure is dropped, nothing is appended.
HandleWorkerErrorSilent ==
    /\ uiQueue # << >>
    /\ Head(uiQueue).sig = "errored"
    /\ Head(uiQueue).to = "window"
    /\ uiQueue' = Tail(uiQueue)
    /\ UNCHANGED << winVisible, winAgent, inputText, winWaiting, transcript,
                    isGenerating, workers, duckAgent, motionVars, bubbleVars,
                    sessionVars >>

\* _handle_worker_error
HandleWorkerError ==
    /\ uiQueue # << >>
    /\ Head(uiQueue).sig = "errored"
    /\ Head(uiQueue).to = "window"
    /\ uiQueue' = Tail(uiQueue)
    /\ AppendMessage("Pixel", "Something went wrong:\n" \o Head(uiQueue).arg)
    /\ UNCHANGED << winVisible, winAgent, inputText, winWaiting, isGenerating,
                    workers, duckAgent, motionVars, bubbleVars, sessionVars >>

\* Variant: the worker is cleaned up, the controls stay disabled.
WinCleanupWorkerStillWaiting ==
    /\ uiQueue # << >>
    /\ Head(uiQueue).sig = "finished"
    /\ Head(uiQueue).to = "window"
    /\ uiQueue' = Tail(uiQueue)
    /\ workers' = [w \in DOMAIN workers \ {Head(uiQueue).sender} |-> workers[w]]
    /\ UNCHANGED << winVisible, winAgent, inputText, winWaiting, transcript,
                    isGenerating, duckAgent, motionVars, bubbleVars, sessionVars >>

\* worker.finished -> lambda: self._cleanup_worker(thread, worker)
WinCleanupWorker ==
    /\ uiQueue # << >>
    /\ Head(uiQueue).sig = "finished"
    /\ Head(uiQueue).to = "window"
    /\ uiQueue' = Tail(uiQueue)
    /\ workers' = [w \in DOMAIN workers \ {Head(uiQueue).sender} |-> workers[w]]
    /\ SetWaiting(FALSE)
    /\ UNCHANGED << winVisible, winAgent, inputText, transcript, isGenerating,
                    duckAgent, motionVars, bubbleVars, sessionVars >>

(***************************************************************************)
(* The overlay and its workers.  Every handler of the overlay and every    *)
(* step of a worker is an action.  The geometry is left to SpecWalk: here  *)
(* primaryScreen() gives no screen, so placing and ticking leave x alone,  *)
(* and the pointer drags the overlay vertically only.  The chat window is  *)
(* shown by a click and then left alone; SpecApp has its user.             *)
(***************************************************************************)
Init ==
    /\ agent = NewAgent("local")
    /\ call = IdleFrame(agent, "new")
    /\ \E llm \in LlmVariants : DuckInit(llm) /\ WindowInit(llm)

WorkerNext ==
    \/ \E id \in DOMAIN workers : WorkerRun(id)
    \/ \E id \in DOMAIN workers : WorkerRespond(id)
    \/ \E id \in DOMAIN workers : WorkerEmitResult(id)
    \/ \E id \in DOMAIN workers : WorkerEmitFinished(id)

SignalNext ==
    \/ HandleAgentReply
    \/ HandleAgentError
    \/ HandleWorkerFinished

WinSignalNext ==
    \/ WinHandleResponded
    \/ HandleWorkerError
    \/ WinCleanupWorker

Next ==
    \/ ShowEvent(FALSE)
    \/ HideEvent
    \/ MousePress
    \/ \E dy \in DragDys : MouseMove(x, dy)
    \/ MouseRelease
    \/ ContextMenuEvent
    \/ \E action \in MenuActions : MenuTrigger(action)
    \/ MenuDismiss
    \/ AnimateStep(FALSE)
    \/ ChatboxTimeout
    \/ WorkerNext
    \/ SignalNext

Spec == Init /\ [][Next]_vars

(***************************************************************************)
(* The overlay walking and being dragged across the screen.  Every handler *)
(* of the overlay is an action, with or without a primary screen; a worker *)
(* that a click or a menu entry starts is not scheduled, as when the       *)
(* responder takes longer than the walk that is looked at; so no reply     *)
(* arrives and the bubble's auto-hide timer is never armed.                *)
(***************************************************************************)
NextWalk ==
    \/ \E screen \in ScreenStates : ShowEvent(screen)
    \/ HideEvent
    \/ MousePress
    \/ \E tx \in DragXs, dy \in DragDys : MouseMove(tx, dy)
    \/ MouseRelease
    \/ ContextMenuEvent
    \/ \E action \in MenuActions : MenuTrigger(action)
    \/ MenuDismiss
    \/ \E screen \in ScreenStates : AnimateStep(screen)

SpecWalk == Init /\ [][NextWalk]_vars

(***************************************************************************)
(* Progress of a dispatch.  The requests of the user (clicks and menu      *)
(* entries), the workers and the delivery of their signals; the worker     *)
(* threads keep running and the UI thread's event loop keeps delivering    *)
(* queued signals.  Drags, ticks, hiding and the bubble's auto-hide change *)
(* nothing a dispatch reads and are left out.                              *)
(***************************************************************************)
NextLive ==
    \/ ShowEvent(FALSE)
    \/ MousePress
    \/ MouseRelease
    \/ ContextMenuEvent
    \/ \E action \in MenuActions : MenuTrigger(action)
    \/ MenuDismiss
    \/ WorkerNext
    \/ SignalNext

SpecLive ==
    Init /\ [][NextLive]_vars /\ WF_vars(WorkerNext) /\ WF_vars(SignalNext)

(***************************************************************************)
(* The bubble of the overlay.  As in SpecLive, with the hiding of the      *)
(* overlay and the time-out of the bubble's timer: the worker threads keep *)
(* running, the UI thread keeps delivering queued signals, and the         *)
(* single-shot timer, once started and not stopped, times out.  The user   *)
(* clicks the sprite or uses its menu, one at a time: the menu is a popup  *)
(* and takes the pointer while it is open.                                 *)
(***************************************************************************)
NextBubble ==
    \/ ShowEvent(FALSE)
    \/ HideEvent
    \/ ~menuOpen /\ MousePress
    \/ MouseRelease
    \/ ~isDragging /\ ContextMenuEvent
    \/ \E action \in MenuActions : MenuTrigger(action)
    \/ MenuDismiss
    \/ ChatboxTimeout
    \/ WorkerNext
    \/ SignalNext

SpecBubbleLive ==
    /\ Init
    /\ [][NextBubble]_vars
    /\ WF_vars(WorkerNext)
    /\ WF_vars(SignalNext)
    /\ WF_vars(ChatboxTimeout)

(***************************************************************************)
(* The application of run_app: the overlay and the chat window, each with  *)
(* its session, their workers and the one UI thread that serves both.  The *)
(* overlay is clicked but neither dragged nor asked for its menu, and its  *)
(* bubble is left to show what it shows; the chat window stays open once a *)
(* click has shown it.                                                     *)
(***************************************************************************)
NextApp ==
    \/ ShowEvent(FALSE)
    \/ MousePress
    \/ MouseRelease
    \/ \E text \in WinTexts : InputEdit(text)
    \/ HandleSend
    \/ HandleReset
    \/ WorkerNext
    \/ SignalNext
    \/ WinSignalNext

SpecApp == Init /\ [][NextApp]_vars

(***************************************************************************)
(* Progress in the chat window.  The user clicks the sprite once, which    *)
(* shows the chat window (and asks the overlay for its reply), and then    *)
(* works in the window.  Each worker thread keeps running and the UI       *)
(* thread's event loop keeps delivering the queued signals of both owners. *)
(***************************************************************************)
NextWin ==
    \/ ShowEvent(FALSE)
    \/ ~winVisible /\ MousePress
    \/ MouseRelease
    \/ \E text \in WinTexts : InputEdit(text)
    \/ HandleSend
    \/ HandleReset
    \/ WorkerNext
    \/ SignalNext
    \/ WinSignalNext

\* The ids of the workers alive at one time: one for each owner.
WorkerIds == {1, 2}

WorkerStep(id) ==
    /\ id \in DOMAIN workers
    /\ \/ WorkerRun(id)
       \/ WorkerRespond(id)
       \/ WorkerEmitResult(id)
       \/ WorkerEmitFinished(id)

SpecWinLive ==
    /\ Init
    /\ [][NextWin]_vars
    /\ \A id \in WorkerIds : WF_vars(WorkerStep(id))
    /\ WF_vars(SignalNext)
    /\ WF_vars(WinSignalNext)

(***************************************************************************)
(* Properties of the session.                                              *)
(***************************************************************************)
IsModelDumpAttributeError(exc) ==
    exc.type = "AttributeError" /\ Contains(exc.msg, "model_dump")

LastMessages(a, n) == SubSeq(a.history, Len(a.history) - n + 1, Len(a.history))

\* C4: a call of respond that returns has appended exactly two messages to the
\* history, the user message and then the assistant message; a call that
\* raises has appended exactly one, the user message.  This holds on the
\* fallback path as on the direct one.
C4_HistoryGrowth ==
    /\ call.pc = "returned" =>
          /\ Len(agent.history) = call.len0 + 2
          /\ LastMessages(agent, 2) =
                << Msg("human", call.user_input), Msg("ai", call.result) >>
    /\ call.pc = "raised" =>
          /\ Len(agent.history) = call.len0 + 1
          /\ LastMessages(agent, 1) = << Msg("human", call.user_input) >>

\* A call that took the fallback path has returned, on a history that earlier
\* calls had already filled.
C4_Witness ==
    /\ call.pc = "returned"
    /\ call.switched
    /\ call.len0 > 0

\* A call has raised on a history that earlier calls had already filled.
C4_WitnessRaised ==
    /\ call.pc = "raised"
    /\ call.len0 > 0

\* C6: reset leaves an empty history whatever the history was, leaves the
\* responder variant alone, and a second reset changes nothing.
C6_ResetEmptiesIdempotent ==
    [][ call'.pc = "reset" =>
          /\ agent'.history = << >>
          /\ agent'.llm = agent.llm
          /\ ResetAgent(agent') = agent' ]_vars

\* reset has run on a history of three messages or more (successes and
\* failures mixed), after the session had fallen back to the local variant.
C6_Witness ==
    /\ call.pc = "reset"
    /\ call.len0 >= 3
    /\ call.llm0 = "local"
    /\ agent.history = << >>

\* C7: a call switches to the local variant exactly on an AttributeError that
\* mentions model_dump; that error never leaves respond; the call then
\* returns a reply of the local variant for the same user input, made by the
\* second invocation, and the history holds the user message once.
C7_FallbackRetrySucceeds ==
    /\ call.pc = "raised" => ~IsModelDumpAttributeError(call.exc)
    /\ call.switched =>
          /\ IsModelDumpAttributeError(call.exc)
          /\ agent.llm = "local"
          /\ call.pc \in {"retry", "append", "returned"}
    /\ (call.switched /\ call.pc \in {"append", "returned"}) =>
          /\ call.invocations = 2
          /\ call.result \in CraftReply(Strip(call.user_input))
    /\ (call.switched /\ call.pc = "returned") =>
          /\ call.value \in CraftReply(Strip(call.user_input))
          /\ Len(agent.history) = call.len0 + 2
          /\ agent.history[call.len0 + 1] = Msg("human", call.user_input)
          /\ agent.history[call.len0 + 2].role = "ai"

\* The remote variant raised the model_dump AttributeError on a joke request
\* and respond returned the local joke.
C7_Witness ==
    /\ call.pc = "returned"
    /\ call.switched
    /\ call.llm0 = "remote"
    /\ call.user_input = "tell me a joke"
    /\ call.value = JokeReply

\* C8: one call invokes the responder at most twice and switches at most
\* once: the second invocation happens only after the switch, and a first
\* failure other than the model_dump AttributeError leaves respond at once,
\* after one invocation, with the responder variant unchanged.
C8_RetryAtMostOnce ==
    /\ call.invocations <= 2
    /\ call.invocations = 2 => (call.switched /\ call.llm0 = "remote")
    /\ (call.exc # NoExc /\ ~IsModelDumpAttributeError(call.exc)) =>
          /\ call.pc = "raised"
          /\ call.invocations = 1
          /\ ~call.switched
          /\ agent.llm = call.llm0
    /\ call.pc = "raised" => call.exc # NoExc

\* A RuntimeError whose message mentions model_dump has left respond after a
\* single invocation, the session still on the remote variant.
C8_Witness ==
    /\ call.pc = "raised"
    /\ call.exc.type = "RuntimeError"
    /\ Contains(call.exc.msg, "model_dump")
    /\ call.invocations = 1
    /\ agent.llm = "remote"

(***************************************************************************)
(* Properties of the overlay's dispatch.                                   *)
(***************************************************************************)
\* The signals of worker id that wait in the UI thread's queue, in order.
Pending(id) == SelectSeq(uiQueue, LAMBDA m : m.sender = id)

SigNames(q) == [i \in 1..Len(q) |-> q[i].sig]

IsSuffix(t, q) == Len(t) <= Len(q) /\ SubSeq(q, Len(q) - Len(t) + 1, Len(q)) = t

\* self._worker_threads: the workers the overlay started.
DuckWorkers == {id \in DOMAIN workers : workers[id].owner = "duck"}

\* A reply request: a plain click, or a chat/joke/touch menu entry.
RequestStep ==
    \/ MouseRelease /\ ~didDrag
    \/ \E action \in MenuActions : MenuTrigger(action)

\* C1: a reply request made while a dispatch is in flight is dropped: it
\* starts no worker, leaves the bubble as it is and reaches the session with
\* no respond call.  So the overlay never has more than one worker, never
\* more than one respond call in progress, and never more than one reply or
\* error waiting to be shown.
C1_SingleFlight ==
    /\ [](/\ Cardinality(DuckWorkers) <= 1
          /\ Cardinality({id \in DuckWorkers : workers[id].pc = "responding"}) <= 1
          /\ Len(SelectSeq(uiQueue, LAMBDA m : m.to = "duck" /\
                                                m.sig \in {"responded", "errored"})) <= 1)
    /\ [][ (isGenerating /\ RequestStep) =>
             UNCHANGED << isGenerating, workers, uiQueue, duckAgent, bubbleVars >> ]_vars

\* A click was made while the chat entry's dispatch was in flight: the sprite
\* is paused by the click, the only worker is the chat entry's, it has not
\* entered respond yet, and the bubble still shows the chat preview.
C1_Witness ==
    /\ isGenerating
    /\ isPaused /\ ~menuOpen /\ ~isDragging
    /\ duckAgent.history = << >>
    /\ DOMAIN workers = {1}
    /\ workers[1].pc = "started"
    /\ workers[1].user_text = BuildActionPrompt("chat")
    /\ chatText = ActionPreview("chat")

\* C2: every accepted dispatch ends with the pending flag cleared, whether
\* respond returned or raised; a request made when the flag is clear is
\* accepted.
C2_FlagEventuallyCleared ==
    /\ isGenerating ~> ~isGenerating
    /\ [][ (~isGenerating /\ RequestStep) =>
             (isGenerating' /\ Cardinality(DOMAIN workers') = 1
                            /\ DOMAIN workers = {}) ]_vars

\* A request has been accepted after an earlier dispatch failed and was
\* cleaned up: the history holds the user message of the failed call.
C2_Witness ==
    /\ isGenerating
    /\ Len(duckAgent.history) = 1
    /\ uiQueue = << >>
    /\ \E id \in DOMAIN workers : workers[id].pc = "started"

\* C3: run emits the reply signal when respond returns and the error signal,
\* with the formatted exception, when respond raises; then it emits finished,
\* once.  Nothing is emitted before respond is over, and the UI thread gets
\* the signals of a worker in the order of their emission.
C3_RunSignals ==
    \A id \in DOMAIN workers :
       LET w == workers[id]
           result == IF w.frame.pc = "returned" THEN "responded" ELSE "errored"
       IN  /\ w.pc \in {"started", "responding"} => w.emitted = << >>
           /\ w.pc = "emit_finished" => (FrameDone(w.frame) /\ w.emitted = << result >>)
           /\ w.pc = "done" => (FrameDone(w.frame) /\ w.emitted = << result, "finished" >>)
           /\ IsSuffix(SigNames(Pending(id)), w.emitted)
           /\ \A i \in 1..Len(uiQueue) :
                 uiQueue[i].sender = id =>
                    /\ uiQueue[i].sig = "responded" => uiQueue[i].arg = w.frame.value
                    /\ uiQueue[i].sig = "errored" => uiQueue[i].arg = FormatExc(w.frame.exc)

\* A worker whose respond raised has emitted errored and then finished, and
\* both signals wait for the UI thread.
C3_Witness ==
    \E id \in DOMAIN workers :
       /\ workers[id].pc = "done"
       /\ workers[id].frame.pc = "raised"
       /\ SigNames(uiQueue) = << "errored", "finished" >>

(***************************************************************************)
(* Properties of the sessions under the two owners.                        *)
(***************************************************************************)
\* The workers of owner whose respond has been entered and whose result has
\* not been emitted yet.
RespondersOn(owner) ==
    {id \in DOMAIN workers : workers[id].owner = owner /\ workers[id].pc = "responding"}

\* C5: on each of the two sessions at most one respond is in progress at any
\* time; reset runs on the chat window's session only when no respond on it
\* is in progress; a session changes only by a step of the one respond in
\* progress on it, or by reset; so a respond that has returned finds the
\* history two messages longer than it found it, and one that has raised
\* finds it one message longer.
C5_NoOverlap ==
    /\ [](\A owner \in {"duck", "window"} :
            /\ Cardinality(RespondersOn(owner)) <= 1
            /\ \A id \in RespondersOn(owner) :
                  LET f == workers[id].frame
                  IN  /\ f.pc = "returned" => Len(AgentOf(owner).history) = f.len0 + 2
                      /\ f.pc = "raised" => Len(AgentOf(owner).history) = f.len0 + 1)
    /\ [][ HandleReset => RespondersOn("window") = {} ]_vars
    /\ [][ winAgent' # winAgent =>
             \/ HandleReset
             \/ \E id \in RespondersOn("window") : WorkerRespond(id) ]_vars
    /\ [][ duckAgent' # duckAgent =>
             \E id \in RespondersOn("duck") : WorkerRespond(id) ]_vars

\* The overlay's worker and the chat window's worker are both inside respond,
\* each on its own session and each past its first message.
C5_Witness ==
    /\ isGenerating
    /\ winWaiting
    /\ \E i \in RespondersOn("duck") : workers[i].frame.pc \in {"invoke", "retry", "append"}
    /\ \E j \in RespondersOn("window") : workers[j].frame.pc \in {"invoke", "retry", "append"}
    /\ Len(duckAgent.history) >= 1
    /\ Len(winAgent.history) >= 1

(***************************************************************************)
(* Properties of the overlay's motion.                                     *)
(***************************************************************************)
\* C9: while the overlay is shown, the tick timer runs exactly when the
\* sprite is neither paused nor being dragged.
C9_TimerIffWalking ==
    shown => (timerActive <=> (~isPaused /\ ~isDragging))

\* C10 (as stated): a tick changes the direction only when the position it
\* moves to is the left or the right edge, and a tick that keeps the
\* direction moves the sprite by exactly the speed, in that direction.
C10_FlipsAtEdgesFixedSpeed ==
    [][ AnimateStep(TRUE) =>
          /\ direction' # direction => x' \in {MinX, MaxX}
          /\ direction' = direction => x' = x + (direction * SpeedPx) ]_vars

\* C10 (amended): a tick changes the direction only when the position it
\* moves to is the left or the right edge; a tick that keeps the direction
\* moves the sprite in that direction, by exactly the speed or, when the
\* sprite was left beyond the edge behind it, by the speed or more onto that
\* edge.
C10_FlipsAtEdgesClampedStep ==
    [][ AnimateStep(TRUE) =>
          /\ direction' # direction => x' \in {MinX, MaxX}
          /\ direction' = direction =>
                \/ x' = x + (direction * SpeedPx)
                \/ /\ x' = (IF direction = 1 THEN MinX ELSE MaxX)
                   /\ (x' - x) * direction >= SpeedPx ]_vars

\* The sprite has turned at the right edge and walked one tick to the left.
C10_Witness ==
    /\ shown
    /\ timerActive
    /\ ~isDragging
    /\ direction = -1
    /\ x = MaxX - SpeedPx

(***************************************************************************)
(* Properties of the context menu and the bubble.                          *)
(***************************************************************************)
\* C11: the sprite is paused for as long as the context menu is open, and
\* when the menu closes, by a choice or without one, the paused flag is
\* what it was just before the menu opened.  contextMenuEvent records that
\* value, negated, in _menu_forced_pause, and nothing changes the record
\* while the menu is open.
C11_MenuPauseRestored ==
    /\ [](menuOpen => isPaused)
    /\ [][ (~menuOpen /\ menuOpen') => menuForcedPause' = ~isPaused ]_vars
    /\ [][ (menuOpen /\ menuOpen') => menuForcedPause' = menuForcedPause ]_vars
    /\ [][ (menuOpen /\ ~menuOpen') => isPaused' = ~menuForcedPause ]_vars

\* The overlay's worker id has a reply or an error still to be handled: it
\* has not emitted one yet, or the one it emitted waits in the queue.
Awaiting(id) ==
    \/ workers[id].pc \in {"started", "responding"}
    \/ \E i \in 1..Len(uiQueue) :
          uiQueue[i].sender = id /\ uiQueue[i].sig \in {"responded", "errored"}

\* C12: from the acceptance of a request until its reply or error is
\* handled, the bubble's text is the preview of the request's action and the
\* auto-hide timer is not armed; accepting a request shows the bubble and
\* stops the timer, armed or not; only the handling of a reply or an error
\* arms the timer; and while the reply is awaited nothing hides the bubble
\* but the hiding of the overlay itself.
C12_BubbleKeptOpen ==
    /\ [](\A id \in DuckWorkers :
            Awaiting(id) =>
               /\ ~chatTimerActive
               /\ \E action \in Actions :
                     /\ workers[id].user_text = BuildActionPrompt(action)
                     /\ chatText = ActionPreview(action))
    /\ [][ (~isGenerating /\ RequestStep) =>
             (chatVisible' /\ ~chatTimerActive') ]_vars
    /\ [][ (~chatTimerActive /\ chatTimerActive') =>
             (HandleAgentReply \/ HandleAgentError) ]_vars
    /\ [][ ((\E id \in DuckWorkers : Awaiting(id)) /\ chatVisible /\ ~chatVisible') =>
             HideEvent ]_vars

\* A second request is in flight, its joke preview open with no auto-hide,
\* after the first dispatch failed and its error text had armed the timer.
C12_Witness ==
    /\ Len(duckAgent.history) = 1
    /\ \E id \in DuckWorkers :
          /\ workers[id].pc = "started"
          /\ workers[id].user_text = BuildActionPrompt("joke")
    /\ chatVisible
    /\ ~chatTimerActive
    /\ chatText = ActionPreview("joke")

\* The sprite's motion: pause, drag, direction, position and tick timer.
MotionState == << isPaused, isDragging, direction, x, timerActive >>

\* C13: handling an error puts the one apologetic text into the bubble,
\* whatever the error signal carries, shows the bubble and arms the
\* auto-hide; it leaves the sprite's motion as it was.  Handling a reply
\* leaves the motion as it was, too.
C13_ResultHandlersKeepMotion ==
    /\ [][ HandleAgentError =>
             /\ chatText' = RuffledText
             /\ chatVisible' /\ chatTimerActive'
             /\ MotionState' = MotionState ]_vars
    /\ [][ HandleAgentReply => MotionState' = MotionState ]_vars

\* An error has been handled in the middle of a drag of a paused sprite: the
\* apology is in the bubble, the drag goes on, the worker's finished signal
\* is still to be handled.
C13_Witness ==
    /\ chatText = RuffledText
    /\ chatTimerActive
    /\ isDragging /\ didDrag /\ isPaused /\ ~timerActive
    /\ isGenerating
    /\ SigNames(uiQueue) = << "finished" >>

(***************************************************************************)
(* Properties of the chat window and of the two owners together.           *)
(***************************************************************************)
IsPrefix(p, t) == Len(p) <= Len(t) /\ SubSeq(t, 1, Len(p)) = p

\* The paragraphs of the transcript that report a failure to the user.
ErrorParagraphs ==
    { transcript[i] : i \in { j \in 1..Len(transcript) :
         IsPrefix("<b>Pixel:</b> Something went wrong:", transcript[j]) } }

\* C14: what the user is shown for a failure is one fixed text in either
\* owner: the overlay's bubble gets the apology whatever the error signal
\* carries, and the failure paragraphs of the chat window's transcript are
\* all the same paragraph.
C14_FixedFailureText ==
    /\ [][ HandleAgentError => chatText' = RuffledText ]_vars
    /\ [](Cardinality(ErrorParagraphs) <= 1)

\* self._threads of the chat window: the workers it started.
WinWorkers == {id \in DOMAIN workers : workers[id].owner = "window"}

\* C15: the input box and the two buttons are disabled exactly while the
\* chat window has a worker, and it never has two; a send that is accepted
\* leaves them disabled and its worker started; and they do not stay
\* disabled: the dispatch completes, whether respond returned or raised, and
\* the cleanup enables them.
C15_ControlsDisabledWhileInFlight ==
    /\ [](/\ winWaiting <=> (WinWorkers # {})
          /\ Cardinality(WinWorkers) <= 1)
    /\ [][ (HandleSend /\ Strip(inputText) # "") =>
             /\ winWaiting'
             /\ \E id \in DOMAIN workers' \ DOMAIN workers :
                   /\ workers'[id].owner = "window"
                   /\ workers'[id].pc = "started"
                   /\ workers'[id].user_text = Strip(inputText) ]_vars
    /\ winWaiting ~> ~winWaiting

\* The controls are enabled again after a send whose respond raised: the
\* failure is in the transcript and the worker is gone.
C15_Witness ==
    /\ ~winWaiting
    /\ WinWorkers = {}
    /\ Len(winAgent.history) = 1
    /\ ErrorParagraphs # {}

\* The speaker an entry of the transcript starts with: the first entry is
\* Pixel's (the welcome, or the fresh start), then You and Pixel take turns.
SpeakerAt(i) == IF i % 2 = 1 THEN "<b>Pixel:</b> " ELSE "<b>You:</b> "

\* C16 (as the code has it): a send appends the user's entry at once, before
\* the worker is started, and the delivery of the reply, or of the failure,
\* appends Pixel's entry; nothing else makes the transcript longer.  So the
\* entries alternate; while the result of a send is awaited the transcript
\* ends with that send's user entry, and at no other time does it end with a
\* user entry: each send has added two entries when its result is handled,
\* the user's immediately followed by Pixel's.
C16_UserEntryAtSendPixelEntryAtDelivery ==
    /\ [](/\ \A i \in 1..Len(transcript) : IsPrefix(SpeakerAt(i), transcript[i])
          /\ (Len(transcript) % 2 = 0) <=> (\E id \in WinWorkers : Awaiting(id))
          /\ \A id \in WinWorkers :
                Awaiting(id) => transcript[Len(transcript)]
                                   = Paragraph("You", workers[id].user_text))
    /\ [][ (HandleSend /\ Strip(inputText) # "") =>
             transcript' = Append(transcript, Paragraph("You", Strip(inputText))) ]_vars
    /\ [][ WinHandleResponded =>
             transcript' = Append(transcript, Paragraph("Pixel", Head(uiQueue).arg)) ]_vars
    /\ [][ Len(transcript') > Len(transcript) =>
             /\ Len(transcript') = Len(transcript) + 1
             /\ HandleSend \/ WinHandleResponded \/ HandleWorkerError ]_vars

\* A second send is awaiting its result: the transcript holds the welcome,
\* the two entries of a first send, and the user entry of the second.
C16_Witness ==
    /\ Len(transcript) = 4
    /\ \E id \in WinWorkers : workers[id].pc = "responding"

\* C16 (as stated): both entries of a send are appended on completion of the
\* dispatch, so the send itself leaves the transcript as it is and the
\* transcript never shows a user entry without Pixel's entry after it.
C16_BothEntriesOnCompletion ==
    /\ [][ HandleSend => transcript' = transcript ]_vars
    /\ [](Len(transcript) % 2 = 1)

\* C17: _handle_reset leaves the chat window's session with an empty
\* history and the transcript with one entry only, the fresh start appended
\* after the view was cleared: every entry shown before is gone.  It leaves
\* the session's model as it was.  The two are cleared together: no step
\* shortens the history or the transcript without emptying both.
C17_ResetClearsSessionAndTranscript ==
    /\ [][ HandleReset =>
             /\ winAgent'.history = << >>
             /\ winAgent'.llm = winAgent.llm
             /\ transcript' = << Paragraph("Pixel", FreshStartText) >> ]_vars
    /\ [][ (\/ Len(winAgent'.history) < Len(winAgent.history)
            \/ Len(transcript') < Len(transcript)) =>
             /\ winAgent'.history = << >>
             /\ transcript' = << Paragraph("Pixel", FreshStartText) >> ]_vars

\* After a reset that followed an exchange: the window's session has fallen
\* back to the local model, which only a respond on it does, and its history
\* and the transcript of that exchange are gone.
C17_Witness ==
    /\ winAgent.llm = "local"
    /\ duckAgent.llm # "local"
    /\ winAgent.history = << >>
    /\ transcript = << Paragraph("Pixel", FreshStartText) >>

\* The signals of the overlay's workers the UI thread has not handled yet.
DuckSignals == SelectSeq(uiQueue, LAMBDA m : m.to = "duck")

\* C18: _is_generating is true whenever the overlay has a worker, started,
\* responding, emitting or waiting for its cleanup, and whenever a signal of
\* one of its workers is still to be handled.  The step that makes a worker
\* sets the flag, and the flag goes from true to false only in the handling
\* of a worker's finished signal, when the reply or the error of that worker
\* has been handled and the overlay has no signal left to handle.
C18_FlagCoversDispatch ==
    /\ []((DuckWorkers # {} \/ DuckSignals # << >>) => isGenerating)
    /\ [][ (\E id \in DOMAIN workers' \ DOMAIN workers : workers'[id].owner = "duck")
             => (~isGenerating /\ isGenerating') ]_vars
    /\ [][ (isGenerating /\ ~isGenerating') =>
             /\ HandleWorkerFinished
             /\ ~Awaiting(Head(uiQueue).sender)
             /\ Len(workers[Head(uiQueue).sender].emitted) = 2
             /\ DuckWorkers' = {}
             /\ DuckSignals' = << >> ]_vars

\* The reply of the dispatch has been shown and its finished signal is still
\* queued: the flag is still true.
C18_Witness ==
    /\ isGenerating
    /\ \E id \in DuckWorkers : workers[id].pc = "done" /\ ~Awaiting(id)
    /\ SigNames(DuckSignals) = << "finished" >>
    /\ chatTimerActive

\* A step of a respond call: a call is entered, or goes one step further.
RespondProgress ==
    \/ duckAgent' # duckAgent
    \/ \E id \in DOMAIN workers \cap DOMAIN workers' :
          workers'[id].frame # workers[id].frame

\* C19: every step of a respond call on the overlay's session is a step of
\* a worker's thread, none is part of a handler of the UI thread; and in
\* every state in which a respond call is in progress the handlers of the
\* UI thread can run as they can without it: a tick if the tick timer is
\* active, a press, a move and a release of a drag, the context menu, a
\* choice from it or its dismissal.
C19_RespondOffTheUiThread ==
    /\ [][ RespondProgress =>
             \E id \in DOMAIN workers : WorkerRun(id) \/ WorkerRespond(id) ]_vars
    /\ [](RespondersOn("duck") # {} =>
            /\ timerActive => ENABLED AnimateStep(FALSE)
            /\ shown => ENABLED MousePress
            /\ (shown /\ isDragging) =>
                  /\ \A dy \in DragDys : ENABLED MouseMove(x, dy)
                  /\ ENABLED MouseRelease
            /\ (shown /\ ~menuOpen) => ENABLED ContextMenuEvent
            /\ menuOpen =>
                  /\ ENABLED MenuDismiss
                  /\ \A action \in MenuActions : ENABLED MenuTrigger(action))

\* The remote call of a respond is in progress while the user drags the
\* sprite with the context menu open.
C19_Witness ==
    /\ \E id \in RespondersOn("duck") : workers[id].frame.pc = "invoke"
    /\ shown
    /\ isDragging
    /\ menuOpen

\* What belongs to one owner: its session, its pending state, its workers
\* and what it shows, the bubble or the transcript.
DuckSide ==
    << duckAgent, isGenerating, [id \in DuckWorkers |-> workers[id]], bubbleVars >>

WindowSide ==
    << winAgent, winWaiting, [id \in WinWorkers |-> workers[id]], transcript >>

\* C20: a send with text is accepted whatever the overlay's pending flag,
\* and a click is accepted whenever the overlay's own flag is false,
\* whatever the chat window awaits; no step changes something of both
\* owners; and each session changes only by a respond step of a worker of
\* its owner or, the chat window's, by reset.
C20_IndependentOwners ==
    /\ []((winVisible /\ ~winWaiting /\ WinHistoryRoom /\ Strip(inputText) # "") =>
            ENABLED (HandleSend /\ winWaiting' /\ WinWorkers' # {}))
    /\ []((shown /\ isDragging /\ ~didDrag /\ ~isGenerating /\ HistoryRoom) =>
            ENABLED (MouseRelease /\ isGenerating' /\ DuckWorkers' # {}))
    /\ [][ DuckSide' = DuckSide \/ WindowSide' = WindowSide ]_vars
    /\ [][ duckAgent' # duckAgent =>
             \E id \in DuckWorkers : WorkerRespond(id) ]_vars
    /\ [][ winAgent' # winAgent =>
             \/ \E id \in WinWorkers : WorkerRespond(id)
             \/ HandleReset ]_vars

\* Both owners have a respond call in progress at once, each on its own
\* session.
C20_Witness ==
    /\ isGenerating
    /\ winWaiting
    /\ \E id \in RespondersOn("duck") : workers[id].frame.pc = "invoke"
    /\ \E id \in RespondersOn("window") : workers[id].frame.pc = "invoke"
    /\ Len(duckAgent.history) = 1
    /\ Len(winAgent.history) = 1

\* C21: when respond has returned, the assistant message it appended to the
\* history holds the string it returned.
C21_HistoryHoldsReturnedReply ==
    call.pc = "returned" =>
       agent.history[Len(agent.history)] = Msg("ai", call.value)

(***************************************************************************)
(* Properties of the local model.                                          *)
(***************************************************************************)
\* C22: for every text _craft_reply is given, the empty one and the ones of
\* whitespace only among them, it has a reply to return and every reply it
\* can return is a non-empty string; so has _generate for every prompt, and
\* what it returned is non-empty.
C22_LocalResponderTotal ==
    /\ \A text \in {call.user_input, Strip(call.user_input)} :
          /\ CraftReply(text) # {}
          /\ \A reply \in CraftReply(text) : Len(reply) > 0
    /\ call.pc = "generate" =>
          LocalGenerate(PromptMessages(agent, call.user_input)) # {}
    /\ call.pc = "generated" => Len(call.result) > 0

\* _generate has returned for a text of whitespace only.
C22_Witness ==
    /\ call.pc = "generated"
    /\ call.user_input = " \n"
    /\ call.result = DefaultGreeting

\* `kw in text.casefold()`
Mentions(text, kw) == InFolded(kw, Casefold(text))

\* C23: the reply _generate returned is chosen by the latest user message
\* alone, stripped, whatever the history before it: the fixed greeting if it
\* is empty; else the joke reply, which names the mouse, if it mentions
\* "joke" in any case, whatever else it mentions; else the nap reply if it
\* mentions "tired" or "break"; else the greeting reply if it mentions
\* "hello" or "hi"; else one of the three templates around its first 40
\* characters.
C23_FirstMatchingRule ==
    call.pc = "generated" =>
       \A text \in {Strip(call.user_input)} :
          /\ text = "" => call.result = DefaultGreeting
          /\ (text # "" /\ Mentions(text, "joke")) =>
                call.result = JokeReply /\ Contains(call.result, "mouse")
          /\ (/\ ~Mentions(text, "joke")
              /\ Mentions(text, "tired") \/ Mentions(text, "break")) =>
                call.result = NapReply
          /\ (/\ ~Mentions(text, "joke")
              /\ ~Mentions(text, "tired") /\ ~Mentions(text, "break")
              /\ Mentions(text, "hello") \/ Mentions(text, "hi")) =>
                call.result = GreetingReply
          /\ (/\ text # ""
              /\ \A kw \in {"joke", "tired", "break", "hello", "hi"} :
                    ~Mentions(text, kw)) =>
                \E fix \in { << "Pixel paws at the screen: ", " *chirp*" >>,
                              << "Pixel tilts head: ", " nya~" >>,
                              << "Pixel fluffs tail: ", " purrr!" >> } :
                   call.result =
                      fix[1] \o "I heard you mention '"
                             \o SubSeq(text, 1, IF Len(text) < CueLen THEN Len(text) ELSE CueLen)
                             \o "'. Let's keep going together!" \o fix[2]

\* The joke reply was given to a text that mentions a joke in mixed case
\* and being tired, after an earlier exchange.
C23_Witness ==
    /\ call.pc = "generated"
    /\ call.user_input = "a JoKe tired"
    /\ call.result = JokeReply
    /\ agent.history # << >>

\* A default template was given to a text longer than 40 characters, and
\* quotes its first 40.
C23_WitnessDefault ==
    /\ call.pc = "generated"
    /\ Len(Strip(call.user_input)) > CueLen
    /\ Contains(call.result, "'0123456789012345678901234567890123456789'")

(***************************************************************************)
(* Properties of the factory.                                              *)
(***************************************************************************)
\* A value is present in the settings, or else in the environment.
Present(setting, env_value) ==
    \/ setting # None /\ setting # Some("")
    \/ env_value # None /\ env_value # Some("")

\* C24: create_chat_model can always be called and returns a model of one of
\* the two variants: the remote one exactly when langchain_openai was
\* imported, the runtime is older than 3.14, and a base URL and a credential
\* are present, each in the settings or else in the environment; the local
\* one in every other case.  The remote model has the model name and the
\* temperature of the settings, the credential found, and the base URL found
\* without its trailing slashes.
C24_RemoteExactlyWhenConfigured ==
    /\ call.pc # "both agents" => ENABLED CreateChatModel
    /\ \A i \in 1..Len(call.models) :
          /\ call.models[i].variant \in LlmVariants
          /\ call.models[i].variant = "remote" <=>
                /\ call.process.importable
                /\ ~call.process.py314_or_newer
                /\ Present(call.settings.base_url, call.process.env.GROK_BASE_URL)
                /\ Present(call.settings.api_key, call.process.env.GROK_AUTH_TOKEN)
          /\ call.models[i].variant = "remote" =>
                /\ call.models[i].model = call.settings.model_name
                /\ call.models[i].temperature = call.settings.temperature
                /\ call.models[i].api_key \in
                      { v[1] : v \in { IF call.settings.api_key \in {None, Some("")}
                                       THEN call.process.env.GROK_AUTH_TOKEN
                                       ELSE call.settings.api_key } }
                /\ \E v \in { IF call.settings.base_url \in {None, Some("")}
                                THEN call.process.env.GROK_BASE_URL
                                ELSE call.settings.base_url } :
                      \E tail \in {"", "/", "//"} :
                         /\ call.models[i].base_url \o tail = v[1]
                         /\ ~IsSuffix("/", call.models[i].base_url)
    /\ agent.llm \in LlmVariants
    /\ call.pc # "new" => agent.llm = call.models[Len(call.models)].variant

\* Both agents of the application got the remote model: the base URL came
\* from the environment, the settings' being empty, and the credential from
\* the settings.
C24_Witness ==
    /\ call.pc = "both agents"
    /\ call.settings.base_url = Some("")
    /\ \A i \in 1..2 :
          /\ call.models[i].variant = "remote"
          /\ call.models[i].base_url = "https://env.example"
          /\ call.models[i].api_key = "token"

\* The local model was returned on a runtime of 3.14 with everything else in
\* place, and the warning was given.
C24_WitnessLocal ==
    /\ call.pc = "both agents"
    /\ call.process.py314_or_newer
    /\ call.process.importable
    /\ call.process.warned
    /\ Truthy(call.settings.base_url)
    /\ Truthy(call.settings.api_key)
    /\ call.models[2] = LocalPetChatModel

(***************************************************************************)
(* Properties of the pointer gestures.                                     *)
(***************************************************************************)
\* C25: a press, a move and the release that ends a drag each leave the
\* paused flag as it is, so the drag as a whole does.  A press clears the
\* moved flag and a move sets it when the pointer has moved by 1 or more.
\* The release of a drag starts no worker, leaves the pending flag, the
\* bubble and the chat window as they are (no request, no duck_clicked),
\* ends the drag, and leaves the tick timer active if it was, or if the
\* sprite is not paused, and not otherwise.
C25_DragKeepsPauseState ==
    /\ [][ (\/ MousePress
            \/ \E dy \in DragDys : MouseMove(x, dy)
            \/ MouseRelease /\ didDrag) =>
             /\ isPaused' = isPaused
             /\ menuForcedPause' = menuForcedPause ]_vars
    /\ [][ MousePress => (isDragging' /\ ~didDrag') ]_vars
    /\ [][ \A dy \in DragDys :
             MouseMove(x, dy) => (didDrag' = (didDrag \/ dy >= 1)) ]_vars
    /\ [][ (MouseRelease /\ didDrag) =>
             /\ ~isDragging'
             /\ workers' = workers
             /\ isGenerating' = isGenerating
             /\ uiQueue' = uiQueue
             /\ bubbleVars' = bubbleVars
             /\ windowVars' = windowVars
             /\ timerActive' = (timerActive \/ ~isPaused) ]_vars

\* A paused sprite is being dragged, the pointer has moved, and a request
\* made now would be accepted.
C25_Witness ==
    /\ shown
    /\ isDragging
    /\ didDrag
    /\ isPaused
    /\ ~timerActive
    /\ ~menuOpen
    /\ ~isGenerating
    /\ Len(duckAgent.history) < MaxHistory

\* C26: a release without movement can be handled in every state in which
\* the sprite is pressed, a dispatch in flight or not, and it inverts the
\* paused flag, with the tick timer following it, and shows the chat window
\* (duck_clicked).  If no dispatch is in flight it makes the overlay's worker
\* for the "click" prompt and shows the "click" preview; if one is, it
\* leaves the workers, the pending flag and the bubble as they are.
C26_ClickTogglesAndEmits ==
    /\ []((shown /\ isDragging /\ ~didDrag /\ HistoryRoom) =>
            ENABLED (MouseRelease /\ isPaused' # isPaused /\ winVisible'))
    /\ [][ (MouseRelease /\ ~didDrag) =>
             /\ isPaused' = ~isPaused
             /\ timerActive' = isPaused
             /\ winVisible'
             /\ isGenerating'
             /\ IF isGenerating
                THEN /\ workers' = workers
                     /\ bubbleVars' = bubbleVars
                ELSE /\ \E id \in DuckWorkers' :
                           /\ DuckWorkers' = DuckWorkers \cup {id}
                           /\ id \notin DuckWorkers
                           /\ workers'[id].pc = "started"
                           /\ workers'[id].user_text = BuildActionPrompt("click")
                     /\ chatText' = ActionPreview("click")
                     /\ chatVisible' ]_vars

\* A second click came while the first one's dispatch was in flight: the
\* sprite walks again, the first dispatch is still the only one.
C26_Witness ==
    /\ isGenerating
    /\ winVisible
    /\ ~isPaused
    /\ timerActive
    /\ ~menuOpen
    /\ ~menuForcedPause
    /\ ~isDragging
    /\ \E id \in DuckWorkers :
          /\ DuckWorkers = {id}
          /\ workers[id].user_text = BuildActionPrompt("click")
          /\ workers[id].pc = "responding"

(***************************************************************************)
(* Properties of the bubble's auto-hide.                                   *)
(***************************************************************************)
\* C27: the bubble is open only while a reply is awaited or the auto-hide
\* timer runs.  An awaited reply or error comes, and its handling shows the
\* bubble with the timer started; a running timer does not run forever, and
\* it stops running only by timing out, which hides the bubble, or by the
\* acceptance of a new request.
C27_BubbleEventuallyHidden ==
    /\ [](chatVisible => (chatTimerActive \/ \E id \in DuckWorkers : Awaiting(id)))
    /\ (\E id \in DuckWorkers : Awaiting(id)) ~> chatTimerActive
    /\ [][ (HandleAgentReply \/ HandleAgentError) =>
             (chatVisible' /\ chatTimerActive') ]_vars
    /\ chatTimerActive ~> ~chatTimerActive
    /\ [][ (chatTimerActive /\ ~chatTimerActive') =>
             \/ ChatboxTimeout /\ ~chatVisible'
             \/ ~isGenerating /\ RequestStep ]_vars

\* The apology of a failed dispatch was shown and the timer has hidden it,
\* the overlay itself still showing.
C27_Witness ==
    /\ shown
    /\ ~chatVisible
    /\ ~chatTimerActive
    /\ chatText = RuffledText
    /\ ~isGenerating

(***************************************************************************)
(* Properties of the responder variant of a session.                       *)
(***************************************************************************)
\* C28: a session on the local variant stays on it, through respond and
\* through reset; the variant changes only in the step of a respond call
\* that switches to the local fallback; and a respond call entered on the
\* local variant invokes the chain once, gets a reply of the local model
\* for its input, and neither switches nor raises.
C28_SwitchIsPermanent ==
    /\ [][ /\ winAgent.llm = "local" => winAgent'.llm = "local"
           /\ duckAgent.llm = "local" => duckAgent'.llm = "local" ]_vars
    /\ [][ HandleReset => winAgent'.llm = winAgent.llm ]_vars
    /\ [][ \A owner \in {"duck", "window"} :
             (AgentOf(owner)').llm # AgentOf(owner).llm =>
                \E id \in DOMAIN workers :
                   /\ workers[id].owner = owner
                   /\ WorkerRespond(id)
                   /\ ~workers[id].frame.switched
                   /\ workers'[id].frame.switched ]_vars
    /\ [](\A id \in DOMAIN workers :
            workers[id].frame.llm0 = "local" =>
               /\ workers[id].frame.invocations <= 1
               /\ ~workers[id].frame.switched
               /\ workers[id].frame.exc = NoExc
               /\ workers[id].frame.pc # "raised"
               /\ workers[id].frame.pc \in {"append", "returned"} =>
                     workers[id].frame.result
                        \in CraftReply(Strip(workers[id].frame.user_input)))

\* The chat window's session switched to the local variant in one call, was
\* reset, and a later call on it has returned; the overlay's session is
\* still on the remote variant.
C28_Witness ==
    /\ duckAgent.llm = "remote"
    /\ winAgent.llm = "local"
    /\ \E id \in WinWorkers :
          /\ workers[id].frame.llm0 = "local"
          /\ workers[id].frame.pc = "returned"
          /\ workers[id].frame.len0 = 0

\* The roles of the messages of a history, in order.
Roles(a) == [i \in 1..Len(a.history) |-> a.history[i].role]

\* C29: in the history of a session every assistant message comes right
\* after a user message: the first message is never the assistant's and no
\* two assistant messages are adjacent.  Only user and assistant messages
\* are recorded.
C29_AssistantFollowsUser ==
    \A a \in {agent, duckAgent, winAgent} :
       \A i \in 1..Len(a.history) :
          /\ a.history[i].role \in {"human", "ai"}
          /\ a.history[i].role = "ai" =>
                (i > 1 /\ a.history[i - 1].role = "human")

\* Two user messages in a row, the first left by a call that raised, and
\* the assistant message of the call that returned after them.
C29_Witness ==
    /\ call.pc = "returned"
    /\ Roles(agent) = << "human", "human", "ai" >>

(***************************************************************************)
(* Properties of a tick, wherever the sprite was dragged to.               *)
(***************************************************************************)
\* C30 (as stated): after a tick on a screen the position is within
\* [MinX, MaxX] and the direction is 1 or -1; a tick of a sprite left of
\* the range puts it on the left edge heading right, and a tick of a sprite
\* right of the range puts it on the right edge heading left.
C30_TickSnapsToNearerEdge ==
    [][ AnimateStep(TRUE) =>
          /\ x' \in MinX..MaxX
          /\ direction' \in {1, -1}
          /\ x < MinX => (x' = MinX /\ direction' = 1)
          /\ x > MaxX => (x' = MaxX /\ direction' = -1) ]_vars

\* C30 (amended): after a tick on a screen the position is within
\* [MinX, MaxX] and the direction is 1 or -1.  A tick of a sprite outside
\* the range puts it on the nearer edge, heading into the screen, unless the
\* sprite heads into the screen already and is less than the speed away from
\* the edge: then the tick moves it by the speed, past the edge into the
\* range, and keeps the direction.
C30_TickReturnsIntoRange ==
    [][ AnimateStep(TRUE) =>
          /\ x' \in MinX..MaxX
          /\ direction' \in {1, -1}
          /\ x < MinX =>
                \/ x' = MinX /\ direction' = 1
                \/ /\ direction = 1 /\ direction' = 1
                   /\ MinX - x < SpeedPx
                   /\ x' = x + SpeedPx
          /\ x > MaxX =>
                \/ x' = MaxX /\ direction' = -1
                \/ /\ direction = -1 /\ direction' = -1
                   /\ x - MaxX < SpeedPx
                   /\ x' = x - SpeedPx ]_vars

\* The sprite, heading left after a turn at the right edge, was dragged to
\* just right of the range and released: the next tick steps into the range.
C30_Witness ==
    /\ shown
    /\ timerActive
    /\ ~isDragging
    /\ ~isPaused
    /\ direction = -1
    /\ x = MaxX + 1

====
